---- MODULE Spec2Model ----
(***************************************************************************)
(* Run event broker of agent_server (services/broker.py).                  *)
(*                                                                         *)
(* The broker runs on one asyncio event loop.  A step of the model is what *)
(* the loop executes atomically: one handle of the loop's FIFO ready queue *)
(* (a task resumed until its next suspension, or a callback), or a piece   *)
(* of caller code that runs between two broker calls without suspending.   *)
(* The loop runs in iterations: it appends the handles of the timers and   *)
(* I/O events that are due, then runs the handles that are ready at that   *)
(* moment; what they schedule runs in the next iteration.                  *)
(* The semantics of asyncio.Queue, asyncio.Event, asyncio.wait and         *)
(* asyncio.wait_for are those of CPython's asyncio; wait_for with a        *)
(* positive timeout exists in two implementations (a sub-task up to 3.11,  *)
(* inline under asyncio.timeout from 3.12), chosen at construction.        *)
(***************************************************************************)
EXTENDS Integers, Sequences, FiniteSets, TLC

\* ---------------------------------------------------------------- bounds
MaxSize == 3      \* largest queue capacity (maxsize) a broker is built with
MaxPuts == 3      \* put() calls issued over a broker's lifetime
LivePuts == 1     \* put() calls issued in the runs checked for termination
MaxBrokers == 3   \* RunBroker instances a BrokerManager constructs
MaxEvents == 1    \* events put on one broker of the registry
MaxTicks == 3     \* advances of the loop's clock
MaxTasks == 2     \* background tasks known to the ShutdownManager

\* The tasks that use the broker: one producer and one consumer with the full
\* budget of calls and both wait_for implementations, or a second producer or
\* a second consumer with one call less, a queue of capacity 1 (where the
\* tasks contend for every slot) and the sub-task wait_for.
Scenarios == {{"p1", "c1"}, {"p1", "p2", "c1"}, {"p1", "c1", "c2"}}

Producers == {"p1", "p2"}
Consumers == {"c1", "c2"}
Payloads  == {"data", "end"}
Timeouts  == {"none", "zero", "pos"}
Impls     == {"task", "inline"}

\* What a producer passes to put(): the first producer any payload and
\* timeout, the second one data events without a timeout.
PutArgs(p) ==
    IF p = "p1" THEN Payloads \X Timeouts ELSE {"data"} \X {"none"}

VARIABLES
    maxsize,          \* RunBroker.queue maxsize
    wait_for_impl,    \* how asyncio.wait_for runs a positive timeout
    queue,            \* RunBroker.queue: the buffered events
    finished,         \* RunBroker.finished (asyncio.Event flag)
    total_events,     \* RunBroker._total_events
    consumed_events,  \* RunBroker._consumed_events
    getters,          \* asyncio.Queue._getters: owners of waiting get() futures
    putters,          \* asyncio.Queue._putters: owners of waiting put() futures
    ev_waiters,       \* asyncio.Event._waiters: owners of finished.wait() futures
    ready,            \* the event loop's FIFO of handles to run
    ntodo,            \* handles left to run in the loop's current iteration
    running,          \* the task executing caller code right now, or "none"
    prod,             \* per producer: its put() call in progress
    cons,             \* per consumer: its aiter() iteration in progress
    enq,              \* history: every event that entered the queue, in order
    ret,              \* history: events whose put() returned normally, in order
    at_finish,        \* history: events of ret when the broker became finished
    nputs,            \* put() calls issued so far
    tasks,            \* the producer and consumer tasks that exist
    manager,          \* the BrokerManager: its registry and its sweep task
    shutdown_manager  \* the ShutdownManager: its task registry and callers

vars == <<maxsize, wait_for_impl, queue, finished, total_events,
          consumed_events, getters, putters, ev_waiters, ready, ntodo, running,
          prod, cons, enq, ret, at_finish, nputs, tasks, manager,
          shutdown_manager>>

\* The state as one record, so that the code's sequential composition is
\* composition of operators.
State ==
    [maxsize |-> maxsize, wait_for_impl |-> wait_for_impl, queue |-> queue,
     finished |-> finished, total_events |-> total_events,
     consumed_events |-> consumed_events, getters |-> getters,
     putters |-> putters, ev_waiters |-> ev_waiters, ready |-> ready,
     ntodo |-> ntodo,
     running |-> running, prod |-> prod, cons |-> cons, enq |-> enq,
     ret |-> ret, at_finish |-> at_finish, nputs |-> nputs, tasks |-> tasks]

Becomes(t) ==
    /\ maxsize' = t.maxsize
    /\ wait_for_impl' = t.wait_for_impl
    /\ queue' = t.queue
    /\ finished' = t.finished
    /\ total_events' = t.total_events
    /\ consumed_events' = t.consumed_events
    /\ getters' = t.getters
    /\ putters' = t.putters
    /\ ev_waiters' = t.ev_waiters
    /\ ready' = t.ready
    /\ ntodo' = t.ntodo
    /\ running' = t.running
    /\ prod' = t.prod
    /\ cons' = t.cons
    /\ enq' = t.enq
    /\ ret' = t.ret
    /\ at_finish' = t.at_finish
    /\ nputs' = t.nputs
    /\ tasks' = t.tasks
    /\ UNCHANGED <<manager, shutdown_manager>>

NoEvent == [src |-> "none", seq |-> 0, end |-> FALSE]

Handle(k, t) == [k |-> k, t |-> t]

Without(seq, x) == SelectSeq(seq, LAMBDA y : y # x)

Range(seq) == {seq[i] : i \in 1..Len(seq)}

\* ------------------------------------------------------------ construction
\* ShutdownManager.__init__.  tasks is the key set of _tasks, status the
\* state of the task known under each id, event the shutdown flag, call the
\* shutdown() call of each caller: where it is, the tasks it gathered,
\* whether its wait timed out, and (history) the registry as it was when the
\* call returned.  installed is _signal_handlers_installed.  failed tells of each task whether it ended with an
\* exception of its own, and (history) whether a shutdown() was waiting for
\* it then.
TaskIds == 1..MaxTasks

Callers == {"s1", "s2"}

CallInit ==
    [pc |-> "idle", gathered |-> {}, timed_out |-> FALSE, left |-> {}]

ShutdownInit ==
    [tasks |-> {}, status |-> [t \in TaskIds |-> "none"], event |-> FALSE,
     failed |-> [t \in TaskIds |-> "no"], installed |-> FALSE,
     call |-> [c \in Callers |-> CallInit]]

\* BrokerManager.__init__.  _brokers is the dict in insertion order, one
\* entry per key, each entry the RunBroker with the fields the manager and
\* its sweep read.  created counts the RunBroker constructions and gives
\* each object its identity.  History: deleted tells of the brokers whose
\* entries were deleted whether they were left finished and whether they
\* still buffered events.  held is the reference each client of the registry
\* keeps to the broker it obtained: the run id it asked for and the object.
Clients == {"producer", "consumer"}

NoHandle == [run_id |-> "none", inst |-> 0]

ManagerInit ==
    [brokers |-> <<>>, cleanup_task |-> "none", wake_at |-> 0, now |-> 0,
     created |-> 0, deleted |-> {}, held |-> [k \in Clients |-> NoHandle],
     errors |-> 0]

ProdInit ==
    [pc |-> "user", sl |-> "asleep", born |-> FALSE, ev |-> NoEvent, tmo |-> "none",
     result |-> "none", putter |-> "none", must_cancel |-> FALSE,
     inner |-> "none", waiter |-> "none", timer |-> "off",
     start_finished |-> FALSE, timed_out |-> FALSE,
     full_at_expiry |-> FALSE, suspended |-> FALSE, touched |-> {}]

ConsInit ==
    [pc |-> "init", sl |-> "asleep", born |-> FALSE, last |-> NoEvent,
     get |-> "none", get_res |-> NoEvent, getter |-> "none", get_mc |-> FALSE,
     wt |-> "none", wfut |-> "none", wt_mc |-> FALSE,
     waiter |-> "none", todo |-> <<>>, recv |-> <<>>, late |-> FALSE,
     absorbed |-> FALSE]

Solo == Cardinality(tasks) = 2

Budget == IF Solo THEN MaxPuts ELSE MaxPuts - 1

Init ==
    /\ tasks \in Scenarios
    /\ maxsize \in (IF Solo THEN 1..MaxSize ELSE {1})
    /\ wait_for_impl \in (IF Solo THEN Impls ELSE {"task"})
    /\ queue = <<>>
    /\ finished = FALSE
    /\ total_events = 0
    /\ consumed_events = 0
    /\ getters = <<>>
    /\ putters = <<>>
    /\ ev_waiters = <<>>
    /\ ready = <<>>
    /\ ntodo = 0
    /\ running = "none"
    /\ prod = [p \in Producers |-> ProdInit]
    /\ cons = [c \in Consumers |-> ConsInit]
    /\ enq = <<>>
    /\ ret = <<>>
    /\ at_finish = {}
    /\ nputs = 0
    /\ manager = ManagerInit
    /\ shutdown_manager = ShutdownInit

\* ------------------------------------------------------------ observers
is_finished(s) == s.finished

is_empty(s) == s.queue = <<>>

get_lag(s) == s.total_events - s.consumed_events

get_queue_size(s) == Len(s.queue)

\* Mutant: the queue is created without its maxsize.
full_unbounded(s) == FALSE

full(s) == Len(s.queue) >= s.maxsize

\* ------------------------------------------- asyncio.Queue / asyncio.Event
\* Queue._wakeup_next(self._getters): pop waiters until one is still pending,
\* complete it; its task's resumption is appended to the ready queue.
RECURSIVE wakeup_getters(_)
wakeup_getters(s) ==
    IF s.getters = <<>> THEN s
    ELSE LET c  == Head(s.getters)
             s1 == [s EXCEPT !.getters = Tail(@)]
         IN  IF s.cons[c].getter = "pending"
             THEN [s1 EXCEPT !.cons[c].getter = "done",
                             !.ready = Append(@, Handle("get", c))]
             ELSE wakeup_getters(s1)

\* Queue._wakeup_next(self._putters).  The putter belongs to the task that
\* runs Queue.put: wait_for's sub-task, or the producer's own task.
RECURSIVE wakeup_putters(_)
wakeup_putters(s) ==
    IF s.putters = <<>> THEN s
    ELSE LET p  == Head(s.putters)
             s1 == [s EXCEPT !.putters = Tail(@)]
             k  == IF s.prod[p].inner = "putter" THEN "inner" ELSE "prod"
         IN  IF s.prod[p].putter = "pending"
             THEN [s1 EXCEPT !.prod[p].putter = "done",
                             !.ready = Append(@, Handle(k, p))]
             ELSE wakeup_putters(s1)

\* Mutant: the queue hands out the newest event first (a LifoQueue).
put_nowait_lifo(s, ev) ==
    wakeup_getters([s EXCEPT !.queue = <<ev>> \o @, !.enq = Append(@, ev)])

\* Queue.put_nowait on a queue that is not full.
put_nowait(s, ev) ==
    wakeup_getters([s EXCEPT !.queue = Append(@, ev), !.enq = Append(@, ev)])

\* Queue.get_nowait on a queue that is not empty; the item is Head(s.queue).
\* Mutant: the head of the queue is read and left in its place.
get_nowait_peek(s) == wakeup_putters(s)

get_nowait(s) ==
    wakeup_putters([s EXCEPT !.queue = Tail(@)])

\* Mutant: the finished flag is set without waking the tasks that wait on it.
set_waiters_none(s, ws) == s

\* Event.set(): every pending waiter is completed, in registration order.
RECURSIVE set_waiters(_, _)
set_waiters(s, ws) ==
    IF ws = <<>> THEN s
    ELSE LET c == Head(ws)
         IN  IF s.cons[c].wfut = "pending"
             THEN set_waiters([s EXCEPT !.cons[c].wfut = "done",
                                        !.ready = Append(@, Handle("wait", c))],
                              Tail(ws))
             ELSE set_waiters(s, Tail(ws))

\* ------------------------------------------------------------- RunBroker
mark_finished(s) ==
    IF s.finished THEN s
    ELSE set_waiters([s EXCEPT !.finished = TRUE, !.at_finish = Range(s.ret)],
                     s.ev_waiters)

\* BrokerManager.cleanup_broker and remove_broker for the run id of this
\* broker, which is registered: what they do to the broker.
cleanup_broker(s) == mark_finished(s)

remove_broker(s) == mark_finished(s)

\* Mutant: the End check at line 85 matches every payload.
is_end_any(ev) == TRUE

is_end(ev) == ev.end

\* Handles of a put() call that has returned: the cancelled timeout handle
\* and callbacks on futures that are already done.  They run as no-ops.
Stale(h, p) == h.t = p /\ h.k \in {"release", "timer"}

\* put() returns to its caller: its stale handles are dropped from the ready
\* queue, those of the current iteration from its count too.
put_leave(s, p, result) ==
    [s EXCEPT !.prod[p].pc = "user", !.prod[p].result = result,
              !.prod[p].timer = "off", !.prod[p].waiter = "none",
              !.prod[p].inner = "none", !.prod[p].putter = "none",
              !.prod[p].must_cancel = FALSE,
              !.ready = SelectSeq(@, LAMBDA h : ~Stale(h, p)),
              !.ntodo = @ - Cardinality({i \in 1..s.ntodo :
                                           Stale(s.ready[i], p)}),
              !.running = p]

\* Lines 71 and 84-86: the enqueue succeeded.
put_done(s, p) ==
    LET s1 == [s EXCEPT !.total_events = @ + 1]
        s2 == IF is_end(s.prod[p].ev) THEN mark_finished(s1) ELSE s1
    IN  put_leave([s2 EXCEPT !.ret = Append(@, s.prod[p].ev)], p, "ok")

\* Mutant: the event is counted before the enqueue is awaited, so a failed
\* put() leaves the counter incremented.
put_raise_counted(s, p) ==
    put_leave([s EXCEPT !.total_events = @ + 1], p, "bp")

\* Lines 73-82: TimeoutError becomes BackpressureError.
put_raise(s, p) == put_leave(s, p, "bp")

\* Mutant: the event is enqueued with put_nowait, and a full queue makes the
\* call fail.
queue_put_own_nowait(s, p) ==
    IF full(s)
    THEN put_raise(s, p)
    ELSE put_done(put_nowait(s, s.prod[p].ev), p)

\* Queue.put awaited in the producer's own task (line 69, or line 66 under
\* asyncio.timeout): suspend on a putter while the queue is full.
queue_put_own(s, p) ==
    IF full(s)
    THEN [s EXCEPT !.putters = Append(@, p), !.prod[p].putter = "pending",
                   !.prod[p].pc = "q_put", !.prod[p].suspended = TRUE,
                   !.running = "none"]
    ELSE put_done(put_nowait(s, s.prod[p].ev), p)

\* Queue.put run by wait_for's sub-task.
queue_put_inner(s, p) ==
    IF full(s)
    THEN [s EXCEPT !.putters = Append(@, p), !.prod[p].putter = "pending",
                   !.prod[p].inner = "putter"]
    ELSE [put_nowait(s, s.prod[p].ev) EXCEPT
              !.prod[p].inner = "done", !.prod[p].putter = "none",
              !.ready = Append(@, Handle("release", p))]

\* Queue.put's except branch, reached when CancelledError is thrown in at
\* 'await putter': drop the putter, pass a wake-up it cannot use to the next.
queue_put_cancelled(s, p) ==
    LET was_cancelled == s.prod[p].putter = "cancelled"
        s1 == [s EXCEPT !.putters = Without(@, p), !.prod[p].putter = "none",
                        !.prod[p].must_cancel = FALSE]
    IN  IF ~full(s1) /\ ~was_cancelled THEN wakeup_putters(s1) ELSE s1

\* Task.cancel() on the task that runs Queue.put.
cancel_put_task(s, p, k) ==
    IF s.prod[p].putter = "pending"
    THEN [s EXCEPT !.prod[p].putter = "cancelled",
                   !.ready = Append(@, Handle(k, p))]
    ELSE [s EXCEPT !.prod[p].must_cancel = TRUE]

\* wait_for(coro, timeout <= 0): the sub-task is cancelled before it starts.
wait_for_zero(s, p) ==
    [s EXCEPT !.prod[p].inner = "sched", !.prod[p].must_cancel = TRUE,
              !.prod[p].waiter = "pending", !.prod[p].pc = "wf_cancel",
              !.prod[p].timed_out = TRUE,
              !.prod[p].full_at_expiry = full(s),
              !.prod[p].suspended = TRUE,
              !.ready = Append(@, Handle("inner", p)), !.running = "none"]

\* wait_for(coro, timeout > 0), sub-task implementation.
wait_for_task(s, p) ==
    [s EXCEPT !.prod[p].inner = "sched", !.prod[p].waiter = "pending",
              !.prod[p].timer = "armed", !.prod[p].pc = "wf_wait",
              !.prod[p].suspended = TRUE,
              !.ready = Append(@, Handle("inner", p)), !.running = "none"]

\* wait_for(coro, timeout > 0), inline under asyncio.timeout.
wait_for_inline(s, p) ==
    queue_put_own([s EXCEPT !.prod[p].timer = "armed"], p)

\* Mutant: put() without the check of the finished flag at lines 46-50.
put_unchecked(s, p, payload, tmo) ==
    LET ev == [src |-> p, seq |-> s.nputs + 1, end |-> payload = "end"]
        s0 == [s EXCEPT !.nputs = @ + 1,
                        !.prod[p] = [ProdInit EXCEPT !.sl = "awake",
                                        !.born = TRUE, !.ev = ev,
                                        !.tmo = tmo,
                                        !.start_finished = s.finished]]
    IN  IF tmo = "none" THEN queue_put_own(s0, p)
        ELSE IF tmo = "zero" THEN wait_for_zero(s0, p)
        ELSE IF s.wait_for_impl = "task" THEN wait_for_task(s0, p)
        ELSE wait_for_inline(s0, p)

\* put(event_id, payload, timeout), from its call to its first suspension.
put(s, p, payload, tmo) ==
    LET ev == [src |-> p, seq |-> s.nputs + 1, end |-> payload = "end"]
        s0 == [s EXCEPT !.nputs = @ + 1,
                        !.prod[p] = [ProdInit EXCEPT !.sl = "awake",
                                        !.born = TRUE, !.ev = ev,
                                        !.tmo = tmo,
                                        !.start_finished = s.finished]]
    IN  IF s.finished THEN put_leave(s0, p, "noop")
        ELSE IF tmo = "none" THEN queue_put_own(s0, p)
        ELSE IF tmo = "zero" THEN wait_for_zero(s0, p)
        ELSE IF s.wait_for_impl = "task" THEN wait_for_task(s0, p)
        ELSE wait_for_inline(s0, p)

\* wait_for's sub-task is resumed: first step, or woken on its putter.
inner_step(s, p) ==
    IF s.prod[p].inner = "sched"
    THEN IF s.prod[p].must_cancel
         THEN [s EXCEPT !.prod[p].inner = "cancelled",
                        !.prod[p].must_cancel = FALSE,
                        !.ready = Append(@, Handle("release", p))]
         ELSE queue_put_inner(s, p)
    ELSE IF s.prod[p].must_cancel \/ s.prod[p].putter = "cancelled"
         THEN [queue_put_cancelled(s, p) EXCEPT
                   !.prod[p].inner = "cancelled",
                   !.ready = Append(@, Handle("release", p))]
         ELSE queue_put_inner(s, p)

\* tasks._release_waiter, as the sub-task's done callback.
release_waiter(s, p) ==
    IF s.prod[p].waiter = "pending"
    THEN [s EXCEPT !.prod[p].waiter = "done",
                   !.ready = Append(@, Handle("prod", p))]
    ELSE s

\* The timeout handle runs: it releases wait_for's waiter (sub-task
\* implementation) or cancels the producer's task (asyncio.timeout).  The
\* timeout has expired for the call if its event is not enqueued by then.
timeout_expired(s, p) ==
    LET ends == \/ s.prod[p].pc = "q_put"
                \/ s.prod[p].waiter = "pending" /\ s.prod[p].inner # "done"
        s1 == [s EXCEPT !.prod[p].timer = "off",
                        !.prod[p].timed_out = ends,
                        !.prod[p].full_at_expiry = ends /\ full(s)]
    IN  IF s.prod[p].pc = "wf_wait" THEN release_waiter(s1, p)
        ELSE cancel_put_task(s1, p, "prod")

\* The producer's task is resumed inside put().
put_resume(s, p) ==
    CASE s.prod[p].pc = "q_put" ->
            IF s.prod[p].must_cancel \/ s.prod[p].putter = "cancelled"
            THEN put_raise(queue_put_cancelled(s, p), p)
            ELSE queue_put_own(s, p)
      [] s.prod[p].pc = "wf_wait" ->
            IF s.prod[p].inner = "done" THEN put_done(s, p)
            ELSE [cancel_put_task(s, p, "inner") EXCEPT
                      !.prod[p].waiter = "pending", !.prod[p].pc = "wf_cancel"]
      [] s.prod[p].pc = "wf_cancel" ->
            IF s.prod[p].inner = "done" THEN put_done(s, p)
            ELSE put_raise(s, p)

\* ------------------------------------------------------- RunBroker.aiter
\* An event is handed to the consumer at a yield (lines 98-99, 134-135,
\* 149-150).
deliver(s, c, ev, at) ==
    [s EXCEPT !.consumed_events = @ + 1, !.cons[c].recv = Append(@, ev),
              !.cons[c].last = ev, !.cons[c].pc = at, !.running = c]

\* Mutant: the generator clears the finished event when it returns.
terminate_clearing(s, c) ==
    [s EXCEPT !.cons[c].pc = "done", !.cons[c].todo = <<>>,
              !.cons[c].last = NoEvent, !.cons[c].get_res = NoEvent,
              !.cons[c].get = "none", !.cons[c].wt = "none",
              !.finished = FALSE, !.running = "none"]

\* The generator returns (break at 107/113, return at 143/153).
terminate(s, c) ==
    [s EXCEPT !.cons[c].pc = "done", !.cons[c].todo = <<>>,
              !.cons[c].last = NoEvent, !.cons[c].get_res = NoEvent,
              !.cons[c].get = "none", !.cons[c].wt = "none",
              !.running = "none"]

\* Lines 116-121: both sub-tasks are created and the consumer suspends in
\* asyncio.wait.
start_wait(s, c) ==
    [s EXCEPT !.cons[c].get = "sched", !.cons[c].get_res = NoEvent,
              !.cons[c].getter = "none", !.cons[c].get_mc = FALSE,
              !.cons[c].wt = "sched", !.cons[c].wfut = "none",
              !.cons[c].wt_mc = FALSE, !.cons[c].waiter = "pending",
              !.cons[c].todo = <<>>, !.cons[c].pc = "waiting",
              !.ready = @ \o <<Handle("get", c), Handle("wait", c)>>,
              !.running = "none"]

\* Lines 111-113.
check_finished(s, c) ==
    IF s.finished /\ is_empty(s) THEN terminate(s, c) ELSE start_wait(s, c)

\* Lines 93-99: top of the loop, the non-blocking get.
loop_top(s, c) ==
    IF ~is_empty(s)
    THEN deliver(get_nowait(s), c, Head(s.queue), "y1")
    ELSE check_finished(s, c)

\* Lines 146-153: the drain after the finished signal.
drain(s, c) ==
    IF ~is_empty(s)
    THEN deliver(get_nowait(s), c, Head(s.queue), "y3")
    ELSE terminate(s, c)

\* Mutant: line 132 does not suppress the exception of task.result(), which
\* leaves the generator and reaches the consumer.
RECURSIVE process_done_unsuppressed(_, _)
process_done_unsuppressed(s, c) ==
    IF s.cons[c].todo = <<>> THEN loop_top(s, c)
    ELSE LET s1 == [s EXCEPT !.cons[c].todo = Tail(@)]
         IN  IF Head(s.cons[c].todo) = "get"
             THEN CASE s.cons[c].get = "cancelled" ->
                          process_done_unsuppressed(s1, c)
                    [] s.cons[c].get = "failed" ->
                          [s1 EXCEPT !.cons[c].pc = "raised",
                                     !.cons[c].todo = <<>>, !.running = c]
                    [] OTHER -> deliver(s1, c, s.cons[c].get_res, "y2")
             ELSE drain(s1, c)

\* Lines 130-153: the loop over the completed sub-tasks, in the order todo.
\* A get_task that ended with an exception raises it from task.result()
\* inside contextlib.suppress(Exception) (line 132): the for loop goes on.
\* (History: absorbed records that this happened.)  The branch of wait_task
\* (line 144) does not ask how wait_task ended.
RECURSIVE process_done(_, _)
process_done(s, c) ==
    IF s.cons[c].todo = <<>> THEN loop_top(s, c)
    ELSE LET s1 == [s EXCEPT !.cons[c].todo = Tail(@)]
         IN  IF Head(s.cons[c].todo) = "get"
             THEN CASE s.cons[c].get = "cancelled" -> process_done(s1, c)
                    [] s.cons[c].get = "failed" ->
                          process_done([s1 EXCEPT !.cons[c].absorbed = TRUE], c)
                    [] OTHER -> deliver(s1, c, s.cons[c].get_res, "y2")
             ELSE drain(s1, c)

\* A sub-task of aiter completed: its done callbacks are scheduled, which
\* are asyncio.wait's _on_completion or the wake-up of 'await task'.
task_done(s, c) ==
    CASE s.cons[c].pc = "waiting" ->
            [s EXCEPT !.ready = Append(@, Handle("oncomp", c))]
      [] s.cons[c].pc = "cancelwait" ->
            [s EXCEPT !.ready = Append(@, Handle("cons", c))]
      [] OTHER -> s

\* Mutant: the event is counted as consumed when get_task takes it.
queue_get_counting(s, c) ==
    IF is_empty(s)
    THEN [s EXCEPT !.getters = Append(@, c), !.cons[c].getter = "pending",
                   !.cons[c].get = "getter"]
    ELSE task_done([get_nowait(s) EXCEPT
                        !.consumed_events = @ + 1,
                        !.cons[c].get = "done", !.cons[c].getter = "none",
                        !.cons[c].get_res = Head(s.queue)], c)

\* Queue.get run by get_task (line 116).
queue_get(s, c) ==
    IF is_empty(s)
    THEN [s EXCEPT !.getters = Append(@, c), !.cons[c].getter = "pending",
                   !.cons[c].get = "getter"]
    ELSE task_done([get_nowait(s) EXCEPT
                        !.cons[c].get = "done", !.cons[c].getter = "none",
                        !.cons[c].get_res = Head(s.queue)], c)

\* Queue.get's except branch: CancelledError thrown in at 'await getter'.
queue_get_cancelled(s, c) ==
    LET was_cancelled == s.cons[c].getter = "cancelled"
        s1 == [s EXCEPT !.getters = Without(@, c), !.cons[c].getter = "none",
                        !.cons[c].get_mc = FALSE, !.cons[c].get = "cancelled"]
        s2 == IF ~is_empty(s1) /\ ~was_cancelled THEN wakeup_getters(s1) ELSE s1
    IN  task_done(s2, c)

\* The call of Queue.get made for get_task (line 116) fails: the sub-task
\* ends with the exception.
get_fail(s, c) == task_done([s EXCEPT !.cons[c].get = "failed"], c)

\* The call of Event.wait made for wait_task (line 117) raises
\* CancelledError: the sub-task ends cancelled.
wait_fail(s, c) == task_done([s EXCEPT !.cons[c].wt = "cancelled"], c)

\* get_task is resumed: first step, or woken on its getter.
get_step(s, c) ==
    IF s.cons[c].get = "getter"
          /\ (s.cons[c].get_mc \/ s.cons[c].getter = "cancelled")
    THEN queue_get_cancelled(s, c)
    ELSE queue_get(s, c)

\* wait_task (line 117) is resumed: Event.wait().
wait_step(s, c) ==
    IF s.cons[c].wt = "sched"
    THEN IF s.finished
         THEN task_done([s EXCEPT !.cons[c].wt = "done"], c)
         ELSE [s EXCEPT !.ev_waiters = Append(@, c),
                        !.cons[c].wfut = "pending", !.cons[c].wt = "waiting"]
    ELSE task_done([s EXCEPT
                        !.ev_waiters = Without(@, c),
                        !.cons[c].wt = IF s.cons[c].wt_mc
                                            \/ s.cons[c].wfut = "cancelled"
                                         THEN "cancelled" ELSE "done",
                        !.cons[c].wfut = "none", !.cons[c].wt_mc = FALSE], c)

\* asyncio.wait's _on_completion (FIRST_COMPLETED).
on_completion(s, c) ==
    IF s.cons[c].waiter = "pending"
    THEN [s EXCEPT !.cons[c].waiter = "done",
                   !.ready = Append(@, Handle("cons", c))]
    ELSE s

\* Line 125: task.cancel() on a sub-task that is still pending.
cancel_get(s, c) ==
    IF s.cons[c].getter = "pending"
    THEN [s EXCEPT !.cons[c].getter = "cancelled",
                   !.ready = Append(@, Handle("get", c))]
    ELSE [s EXCEPT !.cons[c].get_mc = TRUE]

cancel_wait(s, c) ==
    IF s.cons[c].wfut = "pending"
    THEN [s EXCEPT !.cons[c].wfut = "cancelled",
                   !.ready = Append(@, Handle("wait", c))]
    ELSE [s EXCEPT !.cons[c].wt_mc = TRUE]

IsDone(st) == st \in {"done", "cancelled", "failed"}

\* The set 'done' of asyncio.wait, and the orders a for loop may visit it in.
DoneOrders(s, c) ==
    LET g == IsDone(s.cons[c].get)
        w == IsDone(s.cons[c].wt)
    IN  IF g /\ w THEN {<<"get", "wait">>, <<"wait", "get">>}
        ELSE IF g THEN {<<"get">>}
        ELSE IF w THEN {<<"wait">>}
        ELSE {<<>>}

\* Lines 119-128: asyncio.wait returned; pending sub-tasks are cancelled and
\* awaited, then the completed ones are processed.
wait_return(s, c, order) ==
    LET s0 == [s EXCEPT !.cons[c].todo = order, !.cons[c].waiter = "none"]
    IN  IF ~IsDone(s.cons[c].get)
        THEN [cancel_get(s0, c) EXCEPT !.cons[c].pc = "cancelwait"]
        ELSE IF ~IsDone(s.cons[c].wt)
        THEN [cancel_wait(s0, c) EXCEPT !.cons[c].pc = "cancelwait"]
        ELSE process_done(s0, c)

\* Task.cancel() on the consumer's task.  In asyncio.wait (line 119)
\* CancelledError leaves aiter and get_task and wait_task stay as they are;
\* at 'await task' (line 127) the cancellation is passed to the sub-task and
\* then suppressed with it, the iteration goes on; at a yield the consumer's
\* own code is cancelled and the generator is abandoned.
cancel_consumer(s, c) ==
    CASE s.cons[c].pc \in {"init", "done", "cancelled"} -> s
      [] s.cons[c].pc = "cancelwait" ->
            IF ~IsDone(s.cons[c].get) THEN [s EXCEPT !.cons[c].get_mc = TRUE]
            ELSE [s EXCEPT !.cons[c].wt_mc = TRUE]
      [] OTHER ->
            [s EXCEPT !.cons[c].pc = "cancelled", !.cons[c].last = NoEvent,
                      !.cons[c].waiter = "cancelled", !.cons[c].todo = <<>>,
                      !.cons[c].sl = "awake"]

\* History: the consumer starts after every put() has returned, the last of
\* them the End marker's, and before anything was consumed.
LateStart(s) ==
    /\ s.finished
    /\ s.queue # <<>>
    /\ s.queue = s.ret
    /\ is_end(s.queue[Len(s.queue)])
    /\ \A p \in Producers : s.prod[p].pc = "user"

\* The consumer asks the generator for its next item (__anext__).
anext(s, c) ==
    CASE s.cons[c].pc = "init" ->
            loop_top([s EXCEPT !.cons[c].late = LateStart(s)], c)
      [] s.cons[c].pc = "y1" ->
            IF is_end(s.cons[c].last) THEN terminate(s, c)
            ELSE check_finished(s, c)
      [] s.cons[c].pc = "y2" ->
            IF is_end(s.cons[c].last) THEN terminate(s, c)
            ELSE process_done(s, c)
      [] s.cons[c].pc = "y3" -> drain(s, c)

\* ----------------------------------------------------------------- steps
\* History: what a put() call changed of the broker's observable state
\* (1 the queue, 2 total_events, 3 consumed_events, 4 finished).
Observable(s) == <<s.queue, s.total_events, s.consumed_events, s.finished>>

Touch(s, t, p) ==
    [t EXCEPT !.prod[p].touched =
        @ \cup {i \in 1..4 : Observable(t)[i] # Observable(s)[i]}]

Idle == running = "none"

\* Between two iterations of the loop: timers and I/O events are collected.
Polling == Idle /\ ntodo = 0

Next_handle(k) == Idle /\ ntodo > 0 /\ Head(ready).k = k

Popped == [State EXCEPT !.ready = Tail(@), !.ntodo = @ - 1]

\* BaseEventLoop._run_once: the handles ready now are this iteration's.
RunOnce ==
    /\ Polling
    /\ ready # <<>>
    /\ Becomes([State EXCEPT !.ntodo = Len(ready)])

\* A task that was waiting for something outside the broker (a timer, I/O,
\* the execution engine) becomes ready to run.
Wake(t) ==
    /\ Polling
    /\ t \in tasks
    /\ \/ /\ t \in Producers
          /\ prod[t].sl = "asleep"
          /\ nputs < Budget \/ ~finished
          /\ t = "p2" => prod["p1"].born
          /\ Becomes([State EXCEPT !.prod[t].sl = "woken",
                                   !.prod[t].born = TRUE,
                                   !.ready = Append(@, Handle("wake", t))])
       \/ /\ t \in Consumers
          /\ cons[t].sl = "asleep"
          /\ cons[t].pc \notin {"cancelled", "raised"}
          /\ t = "c2" => cons["c1"].born
          /\ Becomes([State EXCEPT !.cons[t].sl = "woken",
                                   !.cons[t].born = TRUE,
                                   !.ready = Append(@, Handle("wake", t))])

\* The timer or I/O callback that resumes a task schedules the task's step.
RunWake ==
    /\ Next_handle("wake")
    /\ LET t == Head(ready).t
       IN  Becomes([Popped EXCEPT
               !.ready = Append(@, Handle(IF t \in Producers THEN "prod"
                                          ELSE "cons", t))])

\* Caller code awaits something outside the broker.
Sleep(t) ==
    /\ running = t
    /\ \/ /\ t \in Producers
          /\ Becomes([State EXCEPT
                          !.prod[t] = [ProdInit EXCEPT !.born = TRUE],
                          !.running = "none"])
       \/ /\ t \in Consumers
          /\ Becomes([State EXCEPT !.cons[t].sl = "asleep", !.running = "none"])

\* The timeout of a put() in progress elapses.
TimerFire(p) ==
    /\ Polling
    /\ prod[p].timer = "armed"
    /\ Becomes([State EXCEPT !.prod[p].timer = "queued",
                             !.ready = Append(@, Handle("timer", p))])

Put(p, payload, tmo) ==
    /\ running = p
    /\ nputs < Budget
    /\ Becomes(Touch(State, put(State, p, payload, tmo), p))

\* The broker is marked finished from caller code: directly, or through the
\* registry entry of its run id.
Finish(p, via) ==
    /\ running = p
    /\ Becomes(CASE via = "mark_finished" -> mark_finished(State)
                 [] via = "cleanup_broker" -> cleanup_broker(State)
                 [] via = "remove_broker" -> remove_broker(State))

RunProducer ==
    /\ Next_handle("prod")
    /\ LET p == Head(ready).t
       IN  IF prod[p].sl = "woken"
           THEN Becomes([Popped EXCEPT !.prod[p].sl = "awake", !.running = p])
           ELSE Becomes(Touch(State, put_resume(Popped, p), p))

RunInner ==
    /\ Next_handle("inner")
    /\ LET p == Head(ready).t
       IN  Becomes(Touch(State, inner_step(Popped, p), p))

RunRelease ==
    /\ Next_handle("release")
    /\ Becomes(release_waiter(Popped, Head(ready).t))

RunTimer ==
    /\ Next_handle("timer")
    /\ Becomes(timeout_expired(Popped, Head(ready).t))

Anext(c) ==
    /\ running = c
    /\ cons[c].pc \notin {"cancelled", "raised"}
    /\ Becomes(anext(State, c))

\* The owner of the first consumer decides to cancel it while it iterates:
\* the callback that calls Task.cancel() becomes ready.
Cancel(c) ==
    /\ Polling
    /\ c \in tasks /\ c = "c1"
    /\ cons[c].pc \notin {"init", "done", "cancelled"}
    /\ Handle("cancel", c) \notin Range(ready)
    /\ Becomes([State EXCEPT !.ready = Append(@, Handle("cancel", c))])

RunCancel ==
    /\ Next_handle("cancel")
    /\ Becomes(cancel_consumer(Popped, Head(ready).t))

RunConsumer ==
    /\ Next_handle("cons")
    /\ LET c == Head(ready).t
       IN  CASE cons[c].pc = "cancelled" -> Becomes(Popped)
             [] cons[c].sl = "woken" ->
                   Becomes([Popped EXCEPT !.cons[c].sl = "awake", !.running = c])
             [] cons[c].pc = "waiting" ->
                   \E order \in DoneOrders(State, c) :
                       Becomes(wait_return(Popped, c, order))
             [] OTHER -> Becomes(process_done(Popped, c))

RunGet ==
    /\ Next_handle("get")
    /\ Becomes(get_step(Popped, Head(ready).t))

\* get_task's first step when the queue's get fails.
RunGetFail ==
    /\ Next_handle("get")
    /\ cons[Head(ready).t].get = "sched"
    /\ Becomes(get_fail(Popped, Head(ready).t))

RunWait ==
    /\ Next_handle("wait")
    /\ Becomes(wait_step(Popped, Head(ready).t))

\* wait_task's first step when the event's wait fails.
RunWaitFail ==
    /\ Next_handle("wait")
    /\ cons[Head(ready).t].wt = "sched"
    /\ Becomes(wait_fail(Popped, Head(ready).t))

RunOnCompletion ==
    /\ Next_handle("oncomp")
    /\ Becomes(on_completion(Popped, Head(ready).t))

Next ==
    \/ \E t \in Producers \cup Consumers : Wake(t)
    \/ \E t \in Producers \cup Consumers : Sleep(t)
    \/ \E p \in Producers : TimerFire(p)
    \/ RunOnce
    \/ RunWake
    \/ \E p \in Producers : \E a \in PutArgs(p) : Put(p, a[1], a[2])
    \/ \E p \in Producers :
           \E via \in {"mark_finished", "cleanup_broker", "remove_broker"} :
               Finish(p, via)
    \/ \E c \in Consumers : Anext(c)
    \/ RunProducer
    \/ RunInner
    \/ RunRelease
    \/ RunTimer
    \/ RunConsumer
    \/ RunGet
    \/ RunWait
    \/ RunOnCompletion

Spec == Init /\ [][Next]_vars

\* The broker with consumers that may be cancelled.
CancelNext ==
    \/ Next
    \/ \E c \in Consumers : Cancel(c)
    \/ RunCancel

\* Cancellation is explored on brokers of capacity one.
CancelInit == Init /\ maxsize = 1

CancelSpec == CancelInit /\ [][CancelNext]_vars

\* The event loop runs every handle that is ready.
LoopStep ==
    \/ RunOnce
    \/ RunCancel
    \/ RunGetFail
    \/ RunWaitFail
    \/ RunWake
    \/ RunProducer
    \/ RunInner
    \/ RunRelease
    \/ RunTimer
    \/ RunConsumer
    \/ RunGet
    \/ RunWait
    \/ RunOnCompletion

\* The runs checked for termination: brokers of capacity 1 with one producer
\* and one or two consumers, that receive at most LivePuts put() calls.
LiveInit == Init /\ maxsize = 1 /\ "p2" \notin tasks

LiveNext == Next /\ nputs' <= LivePuts

\* A step of the loop is possible exactly when no task is running and a
\* handle is ready, and it is the step that changes the iteration's count.
LoopEnabled == Idle /\ ready # <<>>

LoopRan == ntodo' # ntodo

\* WF_vars(LoopStep), written with the two characterisations above.
LoopFair == []<>(~LoopEnabled) \/ []<><<LoopRan>>_vars

\* When a consumer can be resumed, when it can ask for the next item, and
\* the steps that are these.
WakeEnabled(c) ==
    /\ Polling
    /\ c \in tasks
    /\ cons[c].sl = "asleep"
    /\ cons[c].pc \notin {"cancelled", "raised"}
    /\ c = "c2" => cons["c1"].born

WakeRan(c) == cons[c].sl = "asleep" /\ cons'[c].sl = "woken"

AnextEnabled(c) == running = c /\ cons[c].pc \notin {"cancelled", "raised"}

AnextRan(c) == running = c /\ cons'[c].sl = cons[c].sl

\* SF_vars(Wake(c)) /\ SF_vars(Anext(c)), written with the characterisations
\* above.
ConsumerFair(c) ==
    /\ <>[](~WakeEnabled(c)) \/ []<><<WakeRan(c)>>_vars
    /\ <>[](~AnextEnabled(c)) \/ []<><<AnextRan(c)>>_vars

\* Fair scheduling: the loop keeps running its ready handles, caller code of
\* the producer (the only one of these runs) reaches its next await, and a
\* consumer keeps being resumed and keeps asking aiter() for the next event.
FairSpec ==
    /\ LiveInit
    /\ [][LiveNext]_vars
    /\ LoopFair
    /\ WF_vars(Sleep("p1"))
    /\ \A c \in Consumers : ConsumerFair(c)

\* The broker whose internal get may fail, under the same fair scheduling.
FaultNext ==
    \/ LiveNext
    \/ RunGetFail

\* Failures are explored with one producer and one consumer.
FaultInit == LiveInit /\ Solo

FaultSpec ==
    /\ FaultInit
    /\ [][FaultNext]_vars
    /\ LoopFair
    /\ WF_vars(Sleep("p1"))
    /\ \A c \in Consumers : ConsumerFair(c)

\* The runs checked for the completion of a put() that waits: one producer
\* and one consumer, the put() that fills the queue and LivePuts further ones.
BlockedPutNext == Next /\ nputs' <= LivePuts + 1

BlockedPutSpec ==
    /\ FaultInit
    /\ [][BlockedPutNext]_vars
    /\ LoopFair
    /\ WF_vars(Sleep("p1"))
    /\ \A c \in Consumers : ConsumerFair(c)

\* Two producers and a consumer that is free to stop iterating: the loop
\* runs what is ready and the producers go on, but nothing obliges the
\* consumer to ask for its next event.
AbandonedInit == Init /\ tasks = {"p1", "p2", "c1"}

AbandonedSpec ==
    /\ AbandonedInit
    /\ [][BlockedPutNext]_vars
    /\ LoopFair
    /\ WF_vars(Sleep("p1"))
    /\ WF_vars(Sleep("p2"))

\* The broker whose internal get and internal wait may fail.
SubwaitFaultNext ==
    \/ Next
    \/ RunGetFail
    \/ RunWaitFail

SubwaitFaultSpec == FaultInit /\ [][SubwaitFaultNext]_vars

\* ========================================================= BrokerManager
\* The registry of brokers by run id and its background sweep.  The manager's
\* methods are synchronous: on the event loop each call is one step.  The
\* brokers of the registry are followed through what the manager reads of
\* them: the finished flag, the buffered events, the counters and the
\* creation time.
RunIds == {"r1", "r2"}

NoSize == -1              \* maxsize=None
DefaultMaxsize == 10000   \* BrokerManager._default_maxsize
\* The capacity a caller asks for: any for the first run, the default for
\* the second.
MaxsizeArgs(run_id) == IF run_id = "r1" THEN {NoSize, 1} ELSE {NoSize}

Interval == 300           \* seconds the sweep sleeps between two scans
Retention == 3600         \* age in seconds above which the sweep evicts
TickLen == 3600           \* seconds by which the clock is seen to advance

broker_vars == <<maxsize, wait_for_impl, queue, finished, total_events,
                 consumed_events, getters, putters, ev_waiters, ready, ntodo,
                 running, prod, cons, enq, ret, at_finish, nputs, tasks>>

\* RunBroker(run_id, maxsize=size) constructed at time now; inst is the
\* identity of the object.
NewBroker(run_id, inst, size, now) ==
    [run_id |-> run_id, inst |-> inst, maxsize |-> size, finished |-> FALSE,
     queue |-> <<>>, total_events |-> 0, consumed_events |-> 0,
     created_at |-> now, broken |-> FALSE]

None == NewBroker("none", 0, 0, 0)

Registered(m, run_id) ==
    \E i \in 1..Len(m.brokers) : m.brokers[i].run_id = run_id

\* Mutant: the registry is not keyed by the run id; every call reaches the
\* first entry.
IndexOf_first(m, run_id) == 1

IndexOf(m, run_id) ==
    CHOOSE i \in 1..Len(m.brokers) : m.brokers[i].run_id = run_id

\* BrokerManager.get_broker.
get_broker(m, run_id) ==
    IF Registered(m, run_id) THEN m.brokers[IndexOf(m, run_id)] ELSE None

\* Mutant: every call constructs a broker and stores it under the run id.
get_or_create_always(m, run_id, size) ==
    LET b == NewBroker(run_id, m.created + 1,
                       IF size # NoSize THEN size ELSE DefaultMaxsize, m.now)
    IN  IF Registered(m, run_id)
        THEN [m EXCEPT !.brokers[IndexOf(m, run_id)] = b, !.created = @ + 1]
        ELSE [m EXCEPT !.brokers = Append(@, b), !.created = @ + 1]

\* BrokerManager.get_or_create_broker: the registry after the call; the call
\* returns get_broker of it.
get_or_create_broker(m, run_id, size) ==
    IF ~Registered(m, run_id)
    THEN [m EXCEPT
             !.brokers = Append(@, NewBroker(run_id, m.created + 1,
                                    IF size # NoSize THEN size
                                    ELSE DefaultMaxsize, m.now)),
             !.created = @ + 1]
    ELSE m

\* RunBroker.mark_finished on a broker of the registry.
broker_mark_finished(b) == [b EXCEPT !.finished = TRUE]

\* History: what is known of a broker at the deletion of its entry.
Gone(b) == [finished |-> b.finished, buffered |-> b.queue # <<>>]

\* Mutant: cleanup deletes the entry as well.
manager_cleanup_deleting(m, run_id) ==
    IF Registered(m, run_id)
    THEN [m EXCEPT !.brokers = SelectSeq(@, LAMBDA b : b.run_id # run_id),
                   !.deleted = @ \cup
                       {Gone(broker_mark_finished(get_broker(m, run_id)))}]
    ELSE m

\* BrokerManager.cleanup_broker.
manager_cleanup_broker(m, run_id) ==
    IF Registered(m, run_id)
    THEN [m EXCEPT !.brokers[IndexOf(m, run_id)] = broker_mark_finished(@)]
    ELSE m

\* Mutant: an entry that still buffers events is kept.
manager_remove_if_empty(m, run_id) ==
    IF Registered(m, run_id)
    THEN IF get_broker(m, run_id).queue = <<>>
         THEN [m EXCEPT !.brokers = SelectSeq(@, LAMBDA b : b.run_id # run_id),
                        !.deleted = @ \cup
                            {Gone(broker_mark_finished(get_broker(m, run_id)))}]
         ELSE [m EXCEPT !.brokers[IndexOf(m, run_id)] = broker_mark_finished(@)]
    ELSE m

\* BrokerManager.remove_broker: the broker is marked finished (line 218,
\* seen by those who hold it) and its entry is deleted.
manager_remove_broker(m, run_id) ==
    IF Registered(m, run_id)
    THEN [m EXCEPT !.brokers = SelectSeq(@, LAMBDA b : b.run_id # run_id),
                   !.deleted = @ \cup
                       {Gone(broker_mark_finished(get_broker(m, run_id)))}]
    ELSE m

\* RunBroker.get_age.
get_age(b, now) == now - b.created_at

\* Mutant: the sweep does not look at the buffered events.
Evictable_nonempty(b, now) ==
    b.finished /\ get_age(b, now) > Retention

\* The condition of the sweep (lines 244-248).
Evictable(b, now) ==
    b.finished /\ b.queue = <<>> /\ get_age(b, now) > Retention

\* to_remove after the first loop of the scan (lines 241-249).
to_remove(m) ==
    LET sel == SelectSeq(m.brokers, LAMBDA b : Evictable(b, m.now))
    IN  [i \in 1..Len(sel) |-> sel[i].run_id]

\* The second loop of the scan (lines 251-253).
RECURSIVE remove_all(_, _)
remove_all(m, ids) ==
    IF ids = <<>> THEN m
    ELSE remove_all(manager_remove_broker(m, Head(ids)), Tail(ids))

\* Mutant: the scan removes the first entry found and leaves the others.
scan_first_only(m) ==
    IF \E i \in 1..Len(m.brokers) : m.brokers[i].broken THEN m
    ELSE IF to_remove(m) = <<>> THEN m
    ELSE manager_remove_broker(m, Head(to_remove(m)))

\* One scan (lines 240-253).  An exception raised while an entry is
\* inspected leaves the try block (line 256): to_remove is dropped.
scan(m) ==
    IF \E i \in 1..Len(m.brokers) : m.brokers[i].broken THEN m
    ELSE remove_all(m, to_remove(m))

\* Mutant: the loop has no handler for Exception; the failure of a scan ends
\* the task.
cleanup_iteration_unguarded(m) ==
    IF \E i \in 1..Len(m.brokers) : m.brokers[i].broken
    THEN [m EXCEPT !.cleanup_task = "done"]
    ELSE [scan(m) EXCEPT !.wake_at = m.now + Interval]

\* One pass of the loop of _cleanup_old_brokers, from the return of its sleep
\* to the next sleep (lines 236-259).  A failure of the scan is logged at
\* line 259 (errors counts these log entries) and the loop goes on.
cleanup_iteration(m) ==
    IF \E i \in 1..Len(m.brokers) : m.brokers[i].broken
    THEN [m EXCEPT !.errors = @ + 1, !.wake_at = m.now + Interval]
    ELSE [scan(m) EXCEPT !.wake_at = m.now + Interval]

Manages(m) ==
    /\ manager' = m
    /\ UNCHANGED <<broker_vars, shutdown_manager>>

\* The call returns get_broker(manager', run_id).
GetOrCreateBroker(run_id, size) ==
    /\ Registered(manager, run_id) \/ manager.created < MaxBrokers
    /\ Manages(get_or_create_broker(manager, run_id, size))

CleanupBroker(run_id) ==
    /\ manager' = manager_cleanup_broker(manager, run_id)
    /\ UNCHANGED <<broker_vars, shutdown_manager>>

RemoveBroker(run_id) ==
    /\ manager' = manager_remove_broker(manager, run_id)
    /\ UNCHANGED <<broker_vars, shutdown_manager>>

\* The n-th event of a run, as its execution hands it to put().
RunEvent(run_id, n) == <<run_id, n>>

\* The run's execution puts an event on its broker (RunBroker.put on a
\* broker that is neither finished nor full).
BrokerPut(run_id) ==
    /\ Registered(manager, run_id)
    /\ LET b == get_broker(manager, run_id)
       IN  /\ ~b.finished
           /\ Len(b.queue) < b.maxsize
           /\ b.total_events < MaxEvents
           /\ Manages([manager EXCEPT !.brokers[IndexOf(manager, run_id)] =
                          [b EXCEPT !.queue = Append(@, RunEvent(run_id, b.total_events + 1)),
                                    !.total_events = @ + 1]])

\* A consumer of the run takes the next buffered event (RunBroker.aiter).
BrokerGet(run_id) ==
    /\ Registered(manager, run_id)
    /\ LET b == get_broker(manager, run_id)
       IN  /\ b.queue # <<>>
           /\ Manages([manager EXCEPT !.brokers[IndexOf(manager, run_id)] =
                          [b EXCEPT !.queue = Tail(@),
                                    !.consumed_events = @ + 1]])

\* Time passes on the loop's clock.
Advance ==
    /\ manager.now < MaxTicks * TickLen
    /\ Manages([manager EXCEPT !.now = @ + TickLen])

StartCleanupTask ==
    /\ manager' = IF manager.cleanup_task \in {"none", "done"}
                  THEN [manager EXCEPT !.cleanup_task = "sleeping",
                                       !.wake_at = manager.now + Interval]
                  ELSE manager
    /\ UNCHANGED <<broker_vars, shutdown_manager>>

\* The cancellation reaches the sweep at its sleep (line 238) and ends it
\* (line 255).
StopCleanupTask ==
    /\ manager' = IF manager.cleanup_task = "sleeping"
                  THEN [manager EXCEPT !.cleanup_task = "done"]
                  ELSE manager
    /\ UNCHANGED <<broker_vars, shutdown_manager>>

\* The sweep's sleep is over: it scans the registry and sleeps again.
SweepScan ==
    /\ manager.cleanup_task = "sleeping"
    /\ manager.now >= manager.wake_at
    /\ Manages(cleanup_iteration(manager))

\* Inspecting the broker starts to fail (as when is_finished or get_age is
\* patched to raise).
BreakBroker(run_id) ==
    /\ Registered(manager, run_id)
    /\ ~get_broker(manager, run_id).broken
    /\ Manages([manager EXCEPT !.brokers[IndexOf(manager, run_id)].broken = TRUE])

\* A client obtains the broker of a run from the registry and keeps it
\* (get_or_create_broker returns self._brokers[run_id], line 202).
Obtain(k, run_id) ==
    /\ manager.held[k] = NoHandle
    /\ Registered(manager, run_id) \/ manager.created < MaxBrokers
    /\ LET m == get_or_create_broker(manager, run_id, NoSize)
       IN  Manages([m EXCEPT !.held[k] =
                       [run_id |-> run_id, inst |-> get_broker(m, run_id).inst]])

\* A client is done with its broker and drops its reference.
Release(k) ==
    /\ manager.held[k] # NoHandle
    /\ Manages([manager EXCEPT !.held[k] = NoHandle])

\* The calls on the registry.
RegNext ==
    \/ \E r \in RunIds : \E size \in MaxsizeArgs(r) : GetOrCreateBroker(r, size)
    \/ \E r \in RunIds : CleanupBroker(r)
    \/ \E r \in RunIds : RemoveBroker(r)
    \/ \E r \in RunIds : BrokerPut(r)
    \/ \E r \in RunIds : BrokerGet(r)

\* The manager on its own; the tasks of a single broker are left aside.
RegInit ==
    /\ Init
    /\ tasks = {"p1", "c1"} /\ maxsize = 1 /\ wait_for_impl = "task"

RegSpec == RegInit /\ [][RegNext]_vars

\* The sweep over a registry whose entries nobody else deletes: brokers are
\* created with the default capacity, used, marked finished, and age.
SweepNext ==
    \/ \E r \in RunIds : GetOrCreateBroker(r, NoSize)
    \/ \E r \in RunIds : CleanupBroker(r)
    \/ \E r \in RunIds : BrokerPut(r)
    \/ \E r \in RunIds : BrokerGet(r)
    \/ Advance
    \/ StartCleanupTask
    \/ StopCleanupTask
    \/ SweepScan

\* The loop's clock advances and the sweep's timer fires.
SweepSpec ==
    /\ RegInit
    /\ [][SweepNext]_vars
    /\ WF_vars(Advance)
    /\ WF_vars(SweepScan)

\* The sweep over brokers whose inspection may fail.
SweepFaultNext ==
    \/ SweepNext
    \/ \E r \in RunIds : BreakBroker(r)

SweepFaultSpec == RegInit /\ [][SweepFaultNext]_vars

\* The sweep task over brokers whose inspection may fail, while the clock
\* advances and the sweep's timer fires.
SweepTaskNext ==
    \/ \E r \in RunIds : GetOrCreateBroker(r, NoSize)
    \/ \E r \in RunIds : CleanupBroker(r)
    \/ \E r \in RunIds : BreakBroker(r)
    \/ Advance
    \/ StartCleanupTask
    \/ StopCleanupTask
    \/ SweepScan

SweepTaskSpec ==
    /\ RegInit
    /\ [][SweepTaskNext]_vars
    /\ WF_vars(Advance)
    /\ WF_vars(SweepScan)

\* The registry with clients that keep the brokers they obtained, while
\* entries are removed by remove_broker and by the sweep.
HoldNext ==
    \/ \E k \in Clients : \E r \in RunIds : Obtain(k, r)
    \/ \E k \in Clients : Release(k)
    \/ \E r \in RunIds : CleanupBroker(r)
    \/ \E r \in RunIds : RemoveBroker(r)
    \/ Advance
    \/ StartCleanupTask
    \/ SweepScan

HoldSpec == RegInit /\ [][HoldNext]_vars

\* ======================================================= ShutdownManager
\* Lines 26-34.  (The task registered is a new one, running.)
register_task(s, t) ==
    [s EXCEPT !.tasks = @ \cup {t}, !.status[t] = "running",
              !.failed[t] = "no"]

\* Lines 36-44.
unregister_task(s, t) == [s EXCEPT !.tasks = @ \ {t}]

get_active_task_ids(s) == s.tasks

get_active_task_count(s) == Cardinality(s.tasks)

\* Mutant: the loop over the registry stops after its first task.
cancel_tasks_first(s, ts) ==
    [s EXCEPT !.status = [t \in TaskIds |->
        IF t \in ts /\ (\A u \in ts : t <= u) /\ @[t] = "running"
        THEN "cancelling" ELSE @[t]]]

\* Lines 46-48.
is_shutting_down(s) == s.event

\* Lines 50-65.
install_signal_handlers(s) ==
    IF s.installed THEN s ELSE [s EXCEPT !.installed = TRUE]

\* Lines 55-59: the handler of SIGTERM and SIGINT.
signal_handler(s) == [s EXCEPT !.event = TRUE]

\* Task.cancel() on every task of ts that is not done.
cancel_tasks(s, ts) ==
    [s EXCEPT !.status = [t \in TaskIds |->
        IF t \in ts /\ @[t] = "running" THEN "cancelling" ELSE @[t]]]

Settled(s, ts) == \A t \in ts : s.status[t] = "done"

\* Mutant: the registry is cleared only when the wait did not time out.
shutdown_leave_on_success(s, c) ==
    LET s1 == IF s.call[c].timed_out THEN s ELSE [s EXCEPT !.tasks = {}]
    IN  [s1 EXCEPT !.call[c].pc = "returned", !.call[c].gathered = {},
                   !.call[c].left = get_active_task_ids(s1)]

\* Mutant: the shutdown flag is cleared when the shutdown is over.
shutdown_leave_clearing(s, c) ==
    LET s1 == [s EXCEPT !.tasks = {}, !.event = FALSE]
    IN  [s1 EXCEPT !.call[c].pc = "returned", !.call[c].gathered = {},
                   !.call[c].left = get_active_task_ids(s1)]

\* Lines 93-101: after the wait, with or without TimeoutError, the registry
\* is cleared and the call returns.  (History: left is the registry then.)
shutdown_leave(s, c) ==
    LET s1 == [s EXCEPT !.tasks = {}]
    IN  [s1 EXCEPT !.call[c].pc = "returned", !.call[c].gathered = {},
                   !.call[c].left = get_active_task_ids(s1)]

\* Lines 67-92: shutdown() up to its await.
shutdown(s, c) ==
    IF s.tasks = {}
    THEN [s EXCEPT !.call[c] = [CallInit EXCEPT !.pc = "returned",
                                               !.left = get_active_task_ids(s)]]
    ELSE [cancel_tasks([s EXCEPT !.event = TRUE], s.tasks) EXCEPT
             !.call[c] = [CallInit EXCEPT !.pc = "waiting",
                                         !.gathered = s.tasks]]

\* asyncio.wait_for's timeout expires before the gather is done: the gather
\* and with it every task still running is cancelled, and wait_for waits for
\* the gather to end.
shutdown_timeout(s, c) ==
    [cancel_tasks(s, s.call[c].gathered) EXCEPT !.call[c].timed_out = TRUE]

\* Mutant: the gather is made without return_exceptions, and the first
\* exception of a task is raised to the one who awaits it.
gather_raises_first(s, c) ==
    \E t \in s.call[c].gathered : s.failed[t] # "no"

\* asyncio.gather(..., return_exceptions=True), line 90: an exception of a
\* task is one of the results, never raised from the gather.
gather_raises(s, c) == FALSE

\* The gather awaited at line 89 is done.
GatherDone(s, c) ==
    gather_raises(s, c) \/ Settled(s, s.call[c].gathered)

\* Lines 89-101 after the await: an exception other than TimeoutError leaves
\* shutdown() at once.
shutdown_resume(s, c) ==
    IF gather_raises(s, c)
    THEN [s EXCEPT !.call[c].pc = "raised", !.call[c].gathered = {}]
    ELSE shutdown_leave(s, c)

Shuts(s) ==
    /\ shutdown_manager' = s
    /\ UNCHANGED <<broker_vars, manager>>

\* A background task is created and registered under an id that is free.
RegisterTask(t) ==
    /\ t \notin shutdown_manager.tasks
    /\ shutdown_manager.status[t] \in {"none", "done"}
    /\ \A c \in Callers : t \notin shutdown_manager.call[c].gathered
    /\ Shuts(register_task(shutdown_manager, t))

UnregisterTask(t) ==
    /\ t \in shutdown_manager.tasks
    /\ Shuts(unregister_task(shutdown_manager, t))

\* A task ends: by itself, or by the CancelledError thrown into it.
TaskEnds(t) ==
    /\ shutdown_manager.status[t] \in {"running", "cancelling"}
    /\ Shuts([shutdown_manager EXCEPT !.status[t] = "done"])

InstallSignalHandlers ==
    /\ ~shutdown_manager.installed
    /\ Shuts(install_signal_handlers(shutdown_manager))

\* SIGTERM or SIGINT is delivered to the process.
Signal ==
    /\ shutdown_manager.installed
    /\ ~shutdown_manager.event
    /\ Shuts(signal_handler(shutdown_manager))

\* A task ends with an exception of its own.
TaskFails(t) ==
    /\ shutdown_manager.status[t] \in {"running", "cancelling"}
    /\ Shuts([shutdown_manager EXCEPT
                 !.status[t] = "done",
                 !.failed[t] =
                     IF \E c \in Callers :
                            /\ shutdown_manager.call[c].pc = "waiting"
                            /\ t \in shutdown_manager.call[c].gathered
                     THEN "waited" ELSE "yes"])

\* A task catches the CancelledError and goes on.
TaskIgnoresCancel(t) ==
    /\ shutdown_manager.status[t] = "cancelling"
    /\ Shuts([shutdown_manager EXCEPT !.status[t] = "running"])

Shutdown(c) ==
    /\ shutdown_manager.call[c].pc \in {"idle", "returned"}
    /\ Shuts(shutdown(shutdown_manager, c))

Timeout(c) ==
    /\ shutdown_manager.call[c].pc = "waiting"
    /\ ~shutdown_manager.call[c].timed_out
    /\ ~Settled(shutdown_manager, shutdown_manager.call[c].gathered)
    /\ Shuts(shutdown_timeout(shutdown_manager, c))

\* The gather is done: shutdown() resumes and runs to its end.
ShutdownResumes(c) ==
    /\ shutdown_manager.call[c].pc = "waiting"
    /\ GatherDone(shutdown_manager, c)
    /\ Shuts(shutdown_resume(shutdown_manager, c))

ShutdownNext ==
    \/ \E t \in TaskIds : RegisterTask(t)
    \/ \E t \in TaskIds : UnregisterTask(t)
    \/ \E t \in TaskIds : TaskEnds(t)
    \/ \E t \in TaskIds : TaskFails(t)
    \/ \E t \in TaskIds : TaskIgnoresCancel(t)
    \/ \E c \in Callers : Shutdown(c)
    \/ \E c \in Callers : Timeout(c)
    \/ \E c \in Callers : ShutdownResumes(c)
    \/ InstallSignalHandlers
    \/ Signal

ShutdownSpec == RegInit /\ [][ShutdownNext]_vars

\* The timer of asyncio.wait_for fires and a shutdown() whose wait is over is
\* resumed; nothing is assumed of the tasks.
ShutdownLiveSpec ==
    /\ RegInit
    /\ [][ShutdownNext]_vars
    /\ \A c \in Callers : WF_vars(Timeout(c)) /\ WF_vars(ShutdownResumes(c))

\* ================================================================ claims
\* How often an event occurs in a sequence.
Count(seq, e) == Cardinality({i \in 1..Len(seq) : seq[i] = e})

Injective(seq) == \A i, j \in 1..Len(seq) : seq[i] = seq[j] => i = j

\* seq lists its events in the order in which they occur in ref.
InOrderOf(seq, ref) ==
    \A i, j \in 1..Len(seq) :
        i < j => \E k, l \in 1..Len(ref) :
                     k < l /\ ref[k] = seq[i] /\ ref[l] = seq[j]

OnlyConsumer(c) == tasks \cap Consumers = {c}

\* C1: with a single consumer (here fed by a single producer), when aiter()
\* has terminated the yielded sequence holds every event whose put() completed
\* before the broker finished exactly once, no event twice, and only events
\* that were put.
C1_ExactlyOnce ==
    \A c \in Consumers :
        (Solo /\ OnlyConsumer(c) /\ cons[c].pc = "done") =>
            /\ \A e \in at_finish : Count(cons[c].recv, e) = 1
            /\ Injective(cons[c].recv)
            /\ Range(cons[c].recv) \subseteq Range(enq)

\* C2: in every reachable state the number of buffered events is at most the
\* broker's capacity, get_queue_size() <= maxsize.
C2_QueueBounded == get_queue_size(State) <= maxsize

\* The queue is at a capacity of more than one event and a put() is suspended
\* on it.
C2_FullQueueBlocksPut ==
    /\ maxsize >= 2
    /\ get_queue_size(State) = maxsize
    /\ \E p \in Producers : prod[p].putter = "pending"

NonEnd(seq) == SelectSeq(seq, LAMBDA e : ~is_end(e))

\* C4: a single consumer that starts aiter() only after the producer has put
\* e0..e(n-1) and an End marker yields, by the time aiter() has terminated,
\* exactly e0..e(n-1) in that order.
C4_LateConsumerGetsAll ==
    \A c \in Consumers :
        (OnlyConsumer(c) /\ cons[c].late /\ cons[c].pc = "done") =>
            NonEnd(cons[c].recv) = NonEnd(enq)

\* C5: a put() whose timeout expires while the queue is full, its event not
\* yet enqueued, fails with BackpressureError, which is always the case for
\* timeout = 0 on a full queue; and a put() that failed has changed none of
\* the queue content, total_produced, total_consumed and the finished flag.
C5_TimedOutPutMutatesNothing ==
    \A p \in Producers :
        /\ (prod[p].result # "none" /\ prod[p].timed_out
                /\ prod[p].full_at_expiry) => prod[p].result = "bp"
        /\ prod[p].result = "bp" => prod[p].touched = {}

\* A put() with a positive timeout waited on the full queue, timed out with
\* the queue still full and has just raised BackpressureError.
C5_TimedOutOnFullQueue ==
    \E p \in Producers :
        /\ running = p
        /\ prod[p].result = "bp"
        /\ prod[p].tmo = "pos"
        /\ prod[p].timed_out /\ prod[p].full_at_expiry
        /\ full(State)

\* C6: put() raises BackpressureError only if the queue is at capacity when
\* its timeout expires.
C6_BackpressureOnlyWhenFull ==
    \A p \in Producers :
        prod[p].result = "bp" => prod[p].timed_out /\ prod[p].full_at_expiry

\* C7: a put() call that starts on a finished broker returns at once and
\* normally, enqueues nothing and leaves the queue, total_produced,
\* total_consumed (and the finished flag) as they were, for any payload and
\* timeout.
C7_PutOnFinishedIsNoOp ==
    \A p \in Producers :
        prod[p].start_finished =>
            /\ prod[p].pc = "user"
            /\ prod[p].result = "noop"
            /\ ~prod[p].suspended
            /\ prod[p].touched = {}
            /\ prod[p].ev \notin Range(enq)

\* An End marker was put with timeout 0 on a finished broker that still
\* buffers events.
C7_EndPutAfterFinish ==
    \E p \in Producers :
        /\ running = p
        /\ prod[p].start_finished
        /\ is_end(prod[p].ev) /\ prod[p].tmo = "zero"
        /\ queue # <<>>

\* C8: the finished flag is monotonic: no step of any operation takes a
\* finished broker to an unfinished one.
C8_FinishedMonotonic == [][finished => finished']_vars

\* The broker is finished, its consumer has terminated, and a put() was
\* called on it afterwards.
C8_FinishedAndStillUsed ==
    /\ finished
    /\ \E c \in Consumers : cons[c].pc = "done"
    /\ \E p \in Producers : prod[p].result = "noop"

\* C11: under fair scheduling, a consumer that is iterating aiter() on a
\* finished broker eventually terminates.
C11_ConsumersTerminate ==
    \A c \in Consumers :
        (finished /\ cons[c].pc \notin {"init", "done"})
            ~> (cons[c].pc = "done")

\* The broker became finished while a consumer was suspended on the empty
\* queue: its wait on the finished event is completed, its sub-tasks have not
\* run yet.
C11_FinishedWhileSuspended ==
    \E c \in Consumers :
        /\ finished /\ queue = <<>>
        /\ cons[c].pc = "waiting"
        /\ cons[c].getter = "pending"
        /\ cons[c].wt = "waiting" /\ cons[c].wfut = "done"

\* C12: cancelling a consumer in the middle of aiter() drops no event: no
\* sub-wait left behind by the cancelled consumer has taken an event from the
\* queue, since such an event is neither in the queue nor yielded to anyone.
C12_CancelDropsNothing ==
    \A c \in Consumers :
        cons[c].pc = "cancelled" =>
            \/ cons[c].get_res = NoEvent
            \/ cons[c].get_res \in Range(queue)
            \/ \E d \in Consumers : cons[c].get_res \in Range(cons[d].recv)

\* C13: a failure of the get sub-task never reaches the consumer: it is
\* absorbed, the loop goes on, and once the broker is finished the iteration
\* still terminates normally.
C13_GetFailureAbsorbed ==
    /\ [](\A c \in Consumers : cons[c].pc # "raised")
    /\ \A c \in Consumers :
           (cons[c].absorbed /\ finished /\ cons[c].pc # "done")
               ~> (cons[c].pc = "done")

\* C13 witness: the iteration absorbed a failed get and later terminated
\* after yielding an event.
C13_TerminatedAfterFailure ==
    \E c \in Consumers :
        cons[c].absorbed /\ cons[c].pc = "done" /\ cons[c].recv # <<>>

\* The sweep's condition on a broker b at time now, as the contract states it.
FinishedEmptyOld(b, now) ==
    b.finished /\ Len(b.queue) = 0 /\ now - b.created_at > 3600

\* C14: the registry never holds two entries for one run id nor one broker
\* under two run ids, and as long as a run id stays registered it maps to the
\* identical broker, with the capacity it was created with: a further
\* get_or_create_broker() for it creates nothing and ignores its argument.
C14_OneBrokerPerRunId ==
    /\ [](\A i, j \in 1..Len(manager.brokers) :
             i # j => /\ manager.brokers[i].run_id # manager.brokers[j].run_id
                      /\ manager.brokers[i].inst # manager.brokers[j].inst)
    /\ [][\A r \in RunIds :
             Registered(manager, r) /\ Registered(manager', r) =>
                 /\ get_broker(manager', r).inst = get_broker(manager, r).inst
                 /\ get_broker(manager', r).maxsize
                        = get_broker(manager, r).maxsize
                 /\ (\E size \in MaxsizeArgs(r) : GetOrCreateBroker(r, size))
                        => manager'.created = manager.created]_vars

\* C14 witness: both run ids are registered, with distinct brokers, the first
\* with the capacity 1 of the call that created it.
C14_TwoRunsTwoBrokers ==
    /\ Registered(manager, "r1") /\ Registered(manager, "r2")
    /\ get_broker(manager, "r1").inst # get_broker(manager, "r2").inst
    /\ get_broker(manager, "r1").maxsize = 1
    /\ get_broker(manager, "r2").maxsize = DefaultMaxsize

\* C15: cleanup_broker(run_id) on an existing entry sets the broker's
\* finished flag and changes nothing else: the same run ids map to the same
\* brokers, and buffered events, counters and every other entry are as before.
C15_CleanupOnlyFinishes ==
    [][\A r \in RunIds :
          CleanupBroker(r) /\ Registered(manager, r) =>
              /\ Len(manager'.brokers) = Len(manager.brokers)
              /\ get_broker(manager', r).finished
              /\ \A i \in 1..Len(manager.brokers) :
                    /\ manager'.brokers[i].run_id = manager.brokers[i].run_id
                    /\ manager'.brokers[i].inst = manager.brokers[i].inst
                    /\ manager'.brokers[i].queue = manager.brokers[i].queue
                    /\ manager'.brokers[i].total_events
                           = manager.brokers[i].total_events
                    /\ manager'.brokers[i].consumed_events
                           = manager.brokers[i].consumed_events
                    /\ manager.brokers[i].run_id # r =>
                           manager'.brokers[i] = manager.brokers[i]
              /\ manager'.deleted = manager.deleted]_vars

\* C15 witness: a registered broker is finished and still buffers an event
\* that a consumer can take.
C15_FinishedStillBuffered ==
    \E r \in RunIds :
        /\ Registered(manager, r)
        /\ get_broker(manager, r).finished
        /\ get_broker(manager, r).queue # <<>>
        /\ get_broker(manager, r).consumed_events = 0

\* C16: remove_broker(run_id) on an existing entry leaves the broker
\* finished and deletes the entry at once, buffered events or not; the other
\* entries are unchanged; remove_broker and cleanup_broker on an unknown run
\* id change nothing.
C16_RemoveDeletesAtOnce ==
    [][\A r \in RunIds :
          /\ RemoveBroker(r) =>
                /\ ~Registered(manager', r)
                /\ \A o \in RunIds \ {r} :
                      get_broker(manager', o) = get_broker(manager, o)
                /\ Registered(manager, r) =>
                      [finished |-> TRUE,
                       buffered |-> get_broker(manager, r).queue # <<>>]
                          \in manager'.deleted
                /\ ~Registered(manager, r) => manager' = manager
          /\ CleanupBroker(r) /\ ~Registered(manager, r) =>
                manager' = manager]_vars

\* C16 witness: an entry was deleted while its broker buffered an event, and
\* the other run id is still registered.
C16_RemovedWhileBuffered ==
    /\ [finished |-> TRUE, buffered |-> TRUE] \in manager.deleted
    /\ \E r, o \in RunIds : ~Registered(manager, r) /\ Registered(manager, o)

\* C17: a scan of the sweep deletes only entries whose broker is, at the time
\* of the scan, finished and empty and older than 3600 seconds.
C17_SweepEvictsOnlyFinishedEmptyOld ==
    [][SweepScan =>
          \A i \in 1..Len(manager.brokers) :
              ~Registered(manager', manager.brokers[i].run_id) =>
                  FinishedEmptyOld(manager.brokers[i], manager.now)]_vars

\* C17 witness: the sweep has evicted a broker and has just scanned past a
\* finished broker of age above 3600 that still buffers an event.
C17_SweptBesideBuffered ==
    /\ manager.created > Len(manager.brokers)
    /\ manager.cleanup_task = "sleeping"
    /\ manager.wake_at = manager.now + Interval
    /\ \E r \in RunIds :
          /\ Registered(manager, r)
          /\ get_broker(manager, r).finished
          /\ get_broker(manager, r).queue # <<>>
          /\ manager.now - get_broker(manager, r).created_at > 3600

\* The clock of the model can still advance.
ClockRuns == manager.now < MaxTicks * TickLen

\* C18: a scan deletes every entry whose broker is finished, empty and older
\* than 3600 seconds at that time; hence, while the sweep task runs and time
\* goes on, such a broker is eventually evicted.
C18_SweepEvictsAll ==
    /\ [][SweepScan =>
             \A i \in 1..Len(manager.brokers) :
                 FinishedEmptyOld(manager.brokers[i], manager.now) =>
                     ~Registered(manager', manager.brokers[i].run_id)]_vars
    /\ \A r \in RunIds :
          (/\ Registered(manager, r)
           /\ FinishedEmptyOld(get_broker(manager, r), manager.now)
           /\ manager.cleanup_task = "sleeping"
           /\ ClockRuns)
              ~> (~Registered(manager, r) \/ manager.cleanup_task # "sleeping")

\* C18 witness: the sweep, the only one to delete entries here, has evicted
\* both brokers that were created and sleeps again.
C18_BothEvicted ==
    /\ manager.brokers = <<>>
    /\ manager.created = 2
    /\ manager.deleted = {[finished |-> TRUE, buffered |-> FALSE]}
    /\ manager.cleanup_task = "sleeping"

\* C19: when the inspection of one entry fails during a scan, the other
\* entries are still examined and those that are finished, empty and older
\* than 3600 seconds are deleted by that scan.
C19_ScanSurvivesFailure ==
    [][SweepScan =>
          \A i \in 1..Len(manager.brokers) :
              (/\ ~manager.brokers[i].broken
               /\ FinishedEmptyOld(manager.brokers[i], manager.now)) =>
                  ~Registered(manager', manager.brokers[i].run_id)]_vars

\* C20: whenever a shutdown() call has returned, the task registry was empty
\* at its return: no ids, count 0, with or without a timeout of the wait.
C20_RegistryEmptyOnReturn ==
    \A c \in Callers :
        shutdown_manager.call[c].pc = "returned" =>
            shutdown_manager.call[c].left = {}

\* C20 witness: a shutdown() whose wait timed out has returned, and so has
\* the other caller's, while a task registered in the meantime still runs.
C20_ReturnedAfterTimeout ==
    /\ \A c \in Callers : shutdown_manager.call[c].pc = "returned"
    /\ \E c \in Callers : shutdown_manager.call[c].timed_out
    /\ \E t \in TaskIds : shutdown_manager.status[t] = "running"
    /\ get_active_task_count(shutdown_manager) = 0

\* C21: shutdown() never blocks indefinitely: a call that waits for its
\* tasks eventually returns, also when a task absorbs every cancellation and
\* keeps running.
C21_ShutdownReturns ==
    \A c \in Callers :
        (shutdown_manager.call[c].pc = "waiting")
            ~> (shutdown_manager.call[c].pc = "returned")

\* C22: when shutdown() starts to wait, cancellation has been requested of
\* every task of the registry that was not done; and when it returns, every
\* task it waited for is done.
C22_CancelsThenWaits ==
    [][\A c \in Callers :
          /\ (Shutdown(c) /\ shutdown_manager'.call[c].pc = "waiting") =>
                 /\ shutdown_manager'.call[c].gathered = shutdown_manager.tasks
                 /\ \A t \in shutdown_manager.tasks :
                        shutdown_manager'.status[t] \in {"cancelling", "done"}
          /\ (/\ shutdown_manager.call[c].pc = "waiting"
              /\ shutdown_manager'.call[c].pc = "returned") =>
                 \A t \in shutdown_manager.call[c].gathered :
                     shutdown_manager'.status[t] = "done"]_vars

\* C22 witness: a shutdown() that found both tasks running has returned
\* without a timeout, and both tasks are done.
C22_BothTasksDone ==
    \E c \in Callers :
        /\ shutdown_manager.call[c].pc = "returned"
        /\ ~shutdown_manager.call[c].timed_out
        /\ shutdown_manager.event
        /\ \A d \in Callers \ {c} : shutdown_manager.call[d].pc = "idle"
        /\ \A t \in TaskIds : shutdown_manager.status[t] = "done"

\* C23: once a call of shutdown() has started, is_shutting_down() is true,
\* also when the registry was empty and the call returned at once.
C23_FlagSetByEveryCall ==
    \A c \in Callers :
        shutdown_manager.call[c].pc # "idle" => shutdown_manager.event

\* C24: a shutdown() called after a shutdown() has returned, the registry
\* still empty, returns without suspending and leaves the registry empty and
\* the shutting-down flag true.
C24_SecondShutdownIsNoOp ==
    \A c \in Callers :
        (/\ shutdown_manager.call[c].pc = "returned"
         /\ get_active_task_count(shutdown_manager) = 0) =>
            LET after == shutdown(shutdown_manager, c)
            IN  /\ after.call[c].pc = "returned"
                /\ after.tasks = {}
                /\ after.event

\* C25: aiter() ends its sequence only after it has yielded the End marker or
\* after the broker has become finished, also when the internal get or the
\* internal wait fails or is cancelled.
C25_EndsOnlyWhenFinished ==
    \A c \in Consumers :
        cons[c].pc = "done" =>
            \/ finished
            \/ \E i \in 1..Len(cons[c].recv) : is_end(cons[c].recv[i])

\* No put() and no step of aiter() is in progress: every producer is in its
\* own code, every consumer has not started, holds a yielded event or has
\* seen the iteration end.
Quiescent ==
    /\ \A p \in Producers : prod[p].pc = "user"
    /\ \A c \in Consumers : cons[c].pc \in {"init", "y1", "y2", "y3", "done"}

\* C26: on a broker with one consumer, whenever no put() and no step of
\* aiter() is in progress, get_lag() = get_queue_size(): every event counted
\* as produced is counted as consumed or is still buffered.
C26_LagIsQueueSize ==
    (Cardinality(tasks \cap Consumers) = 1 /\ Quiescent) =>
        get_lag(State) = get_queue_size(State)

\* The events handed to consumers so far.
Yielded == Len(cons["c1"].recv) + Len(cons["c2"].recv)

\* C27: in every state total_consumed is the number of events yielded by
\* aiter() so far; an event that was taken from the queue and not yielded is
\* not counted.
C27_ConsumedCountsYields == consumed_events = Yielded

\* C27 witness: the only event put was taken from the queue by get_task and
\* the iteration ended without yielding it; it is not counted as consumed.
C27_TakenNotYielded ==
    /\ total_events = 1 /\ queue = <<>> /\ enq # <<>>
    /\ Quiescent
    /\ \E c \in Consumers : cons[c].pc = "done"
    /\ Yielded = 0
    /\ consumed_events = 0

\* C28: with two consumers iterating aiter() on one broker, no event is
\* yielded to both of them and none is yielded twice to one of them.
C28_ConsumersGetDisjointEvents ==
    /\ \A c \in Consumers : Injective(cons[c].recv)
    /\ Range(cons["c1"].recv) \cap Range(cons["c2"].recv) = {}

\* C28 witness: two consumers iterate concurrently and each has been handed
\* an event.
C28_BothConsumersServed ==
    /\ \A c \in Consumers : cons[c].recv # <<>>
    /\ \A c \in Consumers : cons[c].pc \notin {"init", "done"}

\* C29: at most one broker per run id is in use at any time: two clients
\* that hold the broker they obtained from the registry for the same run id
\* hold the same object, also after remove_broker or an eviction by the sweep
\* was followed by get_or_create_broker.
C29_HoldersShareInstance ==
    \A k1, k2 \in Clients :
        (/\ manager.held[k1] # NoHandle
         /\ manager.held[k1].run_id = manager.held[k2].run_id) =>
            manager.held[k1].inst = manager.held[k2].inst

\* C30: a put() with timeout=None never raises BackpressureError, and one
\* that is suspended on the full queue eventually returns normally, having
\* incremented total_produced, when the consumers keep iterating.
C30_UntimedPutSucceeds ==
    /\ [](\A p \in Producers :
            (prod[p].ev # NoEvent /\ prod[p].tmo = "none")
                => prod[p].result # "bp")
    /\ \A p \in Producers :
           (prod[p].pc = "q_put" /\ prod[p].tmo = "none")
               ~> (/\ prod[p].result = "ok"
                   /\ prod[p].tmo = "none"
                   /\ 2 \in prod[p].touched)

\* C30 witness: a put() with timeout=None that waited on the full queue has
\* just returned normally and has counted its event.
C30_UntimedPutReturned ==
    \E p \in Producers :
        /\ running = p
        /\ prod[p].tmo = "none"
        /\ prod[p].suspended
        /\ prod[p].result = "ok"
        /\ 2 \in prod[p].touched

\* C31: when a task ends with an exception of its own while shutdown()
\* waits for it, shutdown() does not raise, and it leaves its wait only when
\* every task it waits for is done, and then with the registry cleared.
C31_TaskExceptionIsCollected ==
    /\ [](\A c \in Callers : shutdown_manager.call[c].pc # "raised")
    /\ [][\A c \in Callers :
             (/\ shutdown_manager.call[c].pc = "waiting"
              /\ shutdown_manager'.call[c].pc # "waiting"
              /\ \E t \in shutdown_manager.call[c].gathered :
                     shutdown_manager.failed[t] = "waited") =>
                 /\ shutdown_manager'.call[c].pc = "returned"
                 /\ \A t \in shutdown_manager.call[c].gathered :
                        shutdown_manager.status[t] = "done"
                 /\ get_active_task_count(shutdown_manager') = 0]_vars

\* C31 witness: one of the two tasks a shutdown() waits for has ended with
\* its own exception during the wait; the other one has not settled yet and
\* the call still waits, its timeout not yet expired.
C31_WaitsAfterTaskException ==
    \E c \in Callers :
        /\ shutdown_manager.call[c].pc = "waiting"
        /\ ~shutdown_manager.call[c].timed_out
        /\ shutdown_manager.call[c].gathered = {1, 2}
        /\ shutdown_manager.failed[1] = "waited"
        /\ shutdown_manager.status[2] = "cancelling"

\* C32: once is_shutting_down() is true it is true in every later state:
\* no step of register_task, unregister_task, install_signal_handlers,
\* shutdown() or a task resets the flag.
C32_ShuttingDownIsTerminal ==
    [][is_shutting_down(shutdown_manager)
           => is_shutting_down(shutdown_manager')]_vars

\* C32 witness: the signal handlers are installed, a shutdown() has timed
\* out and returned, and a task registered since is running: the flag is
\* still set.
C32_FlagOutlivesShutdown ==
    /\ is_shutting_down(shutdown_manager)
    /\ shutdown_manager.installed
    /\ \E c \in Callers :
           /\ shutdown_manager.call[c].pc = "returned"
           /\ shutdown_manager.call[c].timed_out
    /\ \E t \in TaskIds :
           /\ t \in shutdown_manager.tasks
           /\ shutdown_manager.status[t] = "running"

\* C33: a task is tracked only while it is live: get_active_task_ids() and
\* get_active_task_count() never include a task that is done.
C33_OnlyLiveTasksTracked ==
    \A t \in get_active_task_ids(shutdown_manager) :
        shutdown_manager.status[t] # "done"

\* C39: every task that a returning shutdown() drops from the registry is
\* done or had its cancellation requested by that call; a task registered
\* while the call waited is not dropped un-cancelled and running.
C39_DropsOnlyCancelledTasks ==
    [][\A c \in Callers :
          (/\ shutdown_manager.call[c].pc = "waiting"
           /\ shutdown_manager'.call[c].pc = "returned") =>
              \A t \in get_active_task_ids(shutdown_manager) :
                  \/ shutdown_manager.status[t] = "done"
                  \/ t \in shutdown_manager.call[c].gathered]_vars

C35_BrokersAreIndependent ==
    /\ [](\A i \in 1..Len(manager.brokers) :
             \A j \in 1..Len(manager.brokers[i].queue) :
                 manager.brokers[i].queue[j][1] = manager.brokers[i].run_id)
    /\ [][\A r \in RunIds : \A o \in RunIds \ {r} :
              (\/ \E size \in MaxsizeArgs(r) : GetOrCreateBroker(r, size)
               \/ CleanupBroker(r)
               \/ RemoveBroker(r)
               \/ BrokerPut(r)
               \/ BrokerGet(r)) =>
                  /\ Registered(manager', o) = Registered(manager, o)
                  /\ get_broker(manager', o) = get_broker(manager, o)]_vars

\* C35 witness: the broker of r2 has buffered an event, yielded it and been
\* marked finished, while the broker of r1 still buffers its own event and
\* is not finished.
C35_OneRunDoneOtherBuffering ==
    /\ Registered(manager, "r1") /\ Registered(manager, "r2")
    /\ get_broker(manager, "r2").finished
    /\ get_broker(manager, "r2").consumed_events = 1
    /\ get_broker(manager, "r2").queue = <<>>
    /\ ~get_broker(manager, "r1").finished
    /\ get_broker(manager, "r1").queue = <<RunEvent("r1", 1)>>
    /\ get_broker(manager, "r1").consumed_events = 0

\* C36: once the broker is finished, total_produced does not increase and
\* no event enters the queue, not even by a put() that was suspended on the
\* full queue when the broker became finished.
C36_FinishedBrokerTakesNoEvent ==
    [][finished => (total_events' = total_events /\ enq' = enq)]_vars

\* C37: once the aiter() of the broker's single consumer has terminated, the
\* broker is finished and its queue is empty, in that state and in every
\* later one.
C37_ConsumedBrokerStaysEmpty ==
    ("c2" \notin tasks /\ cons["c1"].pc = "done") => (finished /\ queue = <<>>)

\* C38: a put() with timeout=None that is suspended on the full queue of a
\* finished broker eventually returns, also when no consumer drains the
\* queue any more.
C38_FinishReleasesPut ==
    \A p \in Producers :
        (prod[p].pc = "q_put" /\ prod[p].tmo = "none" /\ finished)
            ~> (prod[p].pc # "q_put")

\* C9: in every reachable state total_produced >= total_consumed, that is
\* get_lag() >= 0.
C9_LagNonNegative == get_lag(State) >= 0

\* C10: a put() of the End marker that returns normally after enqueuing
\* leaves the broker finished, and no step of a put() of another payload
\* changes the finished flag.
C10_EndPutFinishes ==
    \A p \in Producers :
        /\ (prod[p].result = "ok" /\ prod[p].ev.end) => finished
        /\ (prod[p].ev # NoEvent /\ ~prod[p].ev.end)
               => 4 \notin prod[p].touched

\* A put() of the End marker that had to wait has just returned and has set
\* the finished flag.
C10_EndPutReturned ==
    \E p \in Producers :
        /\ running = p
        /\ prod[p].result = "ok"
        /\ prod[p].ev.end
        /\ prod[p].suspended
        /\ 4 \in prod[p].touched
====
